---- MODULE Spec2Model ----
(***************************************************************************)
(* SQL compilation helpers of propane_core (src/propane_core/src/db/       *)
(* helper.rs): the expression compiler sql_for_expr, the statement         *)
(* builders, column_default and sql_literal_value.                         *)
(*                                                                         *)
(* The text sink is a string, the parameter vector a sequence of SqlVal.   *)
(* The build modelled is the one without the optional "datetime" feature,  *)
(* so SqlVal and SqlType have no Timestamp variant.  Real payloads are     *)
(* whole numbers (f64 prints a whole number without a fraction part).      *)
(***************************************************************************)
EXTENDS Integers, Sequences, FiniteSets, TLC

VARIABLES w, values, calls, result

vars == <<w, values, calls, result>>

(***************************************************************************)
(* Value model: SqlVal, SqlType, Option and Result.                        *)
(***************************************************************************)
SqlVal_Null == [tag |-> "Null"]
SqlVal_Bool(b) == [tag |-> "Bool", v |-> b]
SqlVal_Int(n) == [tag |-> "Int", v |-> n]
SqlVal_Real(x) == [tag |-> "Real", v |-> x]
SqlVal_Text(s) == [tag |-> "Text", v |-> s]
SqlVal_Blob(bytes) == [tag |-> "Blob", v |-> bytes]

SqlType == {"Bool", "Int", "BigInt", "Real", "Text", "Blob"}

None == [some |-> FALSE]
Some(x) == [some |-> TRUE, val |-> x]

Ok(x) == [ok |-> TRUE, val |-> x]
Err(e) == [ok |-> FALSE, err |-> e]

(***************************************************************************)
(* Expression tree: Expr, BoolExpr, Join, query::Column, AColumn.          *)
(***************************************************************************)
Expr_Column(name) == [e |-> "Column", name |-> name]
Val(v) == [e |-> "Val", v |-> v]
Placeholder == [e |-> "Placeholder"]
Condition(c) == [e |-> "Condition", c |-> c]

True == [op |-> "True"]
Eq(col, ex) == [op |-> "Eq", col |-> col, ex |-> ex]
Ne(col, ex) == [op |-> "Ne", col |-> col, ex |-> ex]
Lt(col, ex) == [op |-> "Lt", col |-> col, ex |-> ex]
Gt(col, ex) == [op |-> "Gt", col |-> col, ex |-> ex]
Le(col, ex) == [op |-> "Le", col |-> col, ex |-> ex]
Ge(col, ex) == [op |-> "Ge", col |-> col, ex |-> ex]
Like(col, ex) == [op |-> "Like", col |-> col, ex |-> ex]
AllOf(conds) == [op |-> "AllOf", conds |-> conds]
And(a, b) == [op |-> "And", a |-> a, b |-> b]
Or(a, b) == [op |-> "Or", a |-> a, b |-> b]
Not(a) == [op |-> "Not", a |-> a]
Subquery(col, tbl2, tbl2_col, expr) ==
    [op |-> "Subquery", col |-> col, tbl2 |-> tbl2, tbl2_col |-> tbl2_col,
     expr |-> expr]
SubqueryJoin(col, tbl2, col2, joins, expr) ==
    [op |-> "SubqueryJoin", col |-> col, tbl2 |-> tbl2, col2 |-> col2,
     joins |-> joins, expr |-> expr]
In(col, vals) == [op |-> "In", col |-> col, vals |-> vals]

\* query::Column: an optional table and a name
QColumn(table, name) == [table |-> table, name |-> name]

Join_Inner(join_table, col1, col2) ==
    [join_table |-> join_table, col1 |-> col1, col2 |-> col2]

\* AColumn: an optional default, the nullable flag, the fallible type accessor
AColumn(default, nullable, sqltype) ==
    [default |-> default, nullable |-> nullable, sqltype |-> sqltype]

(***************************************************************************)
(* Formatting helpers: what Display / join / hex::encode_upper produce.    *)
(***************************************************************************)
\* the pair (values, w) a compile call leaves behind
St(vs, s) == [values |-> vs, w |-> s]

RECURSIVE join(_, _)
\* [String]::join(sep)
join(strs, sep) ==
    IF strs = <<>> THEN ""
    ELSE IF Len(strs) = 1 THEN strs[1]
    ELSE strs[1] \o sep \o join(Tail(strs), sep)

bool_to_string(b) == IF b THEN "true" ELSE "false"

HexUpper == "0123456789ABCDEF"

HexDigit(d) == SubSeq(HexUpper, d + 1, d + 1)

RECURSIVE hex_encode_upper(_)
hex_encode_upper(bytes) ==
    IF bytes = <<>> THEN ""
    ELSE HexDigit(Head(bytes) \div 16) \o HexDigit(Head(bytes) % 16)
             \o hex_encode_upper(Tail(bytes))

sql_literal_value(val) ==
    CASE val.tag = "Null" -> "NULL"
      [] val.tag = "Bool" -> bool_to_string(val.v)
      [] val.tag = "Int" -> ToString(val.v)
      [] val.tag = "Real" -> ToString(val.v)
      [] val.tag = "Text" -> "'" \o val.v \o "'"
      [] val.tag = "Blob" -> "x'" \o hex_encode_upper(val.v) \o "'"

\* Display of SqlVal (v.to_string() in the In arm); the impl lives outside
\* helper.rs, the design document equates it with the literal renderer
SqlVal_to_string(val) == sql_literal_value(val)

(***************************************************************************)
(* sql_column, sql_joins, list_columns                                     *)
(***************************************************************************)
sql_column(col, s) ==
    IF col.table.some THEN s \o col.table.val \o "." \o col.name
    ELSE s \o col.name

sql_join(j, s) ==
    sql_column(j.col2,
        sql_column(j.col1, s \o "INNER JOIN " \o j.join_table \o " ON ") \o " = ")

RECURSIVE sql_joins(_, _)
sql_joins(joins, s) ==
    IF joins = <<>> THEN s
    ELSE sql_joins(Tail(joins), sql_join(Head(joins), s))

\* list_columns with the separator of the other builders
list_columns_Spaced(columns, s) == s \o join(columns, ", ")

list_columns(columns, s) == s \o join(columns, ",")

(***************************************************************************)
(* sql_for_expr, with itself as the callback f                             *)
(***************************************************************************)
RECURSIVE sql_for_expr(_, _, _)
RECURSIVE AllOfLoop(_, _, _, _)

f(expr, vs, s) == sql_for_expr(expr, vs, s)

ExprColumn(name, vs, s) == St(vs, s \o name)

\* ExprVal with the push forgotten
ExprVal_NoPush(v, vs, s) == St(vs, s \o "?")

ExprVal(v, vs, s) == St(Append(vs, v), s \o "?")

ExprPlaceholder(vs, s) == St(vs, s \o "?")

\* CondEq without the null rewrite
CondEq_NoNullCase(col, ex, vs, s) == f(ex, vs, s \o col \o " = ")

CondEq(col, ex, vs, s) ==
    IF ex = Val(SqlVal_Null) THEN St(vs, s \o col \o " IS NULL")
    ELSE f(ex, vs, s \o col \o " = ")

CondNe(col, ex, vs, s) ==
    IF ex = Val(SqlVal_Null) THEN St(vs, s \o col \o " IS NOT NULL")
    ELSE f(ex, vs, s \o col \o " <> ")

\* Lt, Gt, Le, Ge, Like: the column, the operator, the compiled right side
CondCmp(col, sym, ex, vs, s) == f(ex, vs, s \o col \o sym)

\* AllOfSep with the test off by one: a separator after the last condition too
AllOfSep_OffByOne(remaining, s) ==
    IF remaining > 0 THEN [w |-> s \o " AND ", remaining |-> remaining - 1]
    ELSE [w |-> s, remaining |-> remaining]

\* the separator step of the AllOf loop
AllOfSep(remaining, s) ==
    IF remaining > 1 THEN [w |-> s \o " AND ", remaining |-> remaining - 1]
    ELSE [w |-> s, remaining |-> remaining]

AllOfLoop(conds, remaining, vs, s) ==
    IF conds = <<>> THEN St(vs, s)
    ELSE LET r == f(Condition(Head(conds)), vs, s)
             sep == AllOfSep(remaining, r.w)
         IN  AllOfLoop(Tail(conds), sep.remaining, r.values, sep.w)

CondAllOf(conds, vs, s) == AllOfLoop(conds, Len(conds), vs, s)

\* CondAnd with its operands taken in the wrong order
CondAnd_Swapped(a, b, vs, s) ==
    LET r == f(Condition(b), vs, s)
    IN  f(Condition(a), r.values, r.w \o " AND ")

CondAnd(a, b, vs, s) ==
    LET r == f(Condition(a), vs, s)
    IN  f(Condition(b), r.values, r.w \o " AND ")

CondOr(a, b, vs, s) ==
    LET r == f(Condition(a), vs, s)
    IN  f(Condition(b), r.values, r.w \o " OR ")

CondNot(a, vs, s) == f(Condition(a), vs, s \o "NOT ")

CondSubquery(c, vs, s) ==
    LET r == f(Condition(c.expr), vs,
               s \o c.col \o " IN (SELECT " \o c.tbl2_col \o " FROM "
                 \o c.tbl2 \o " WHERE ")
    IN  St(r.values, r.w \o ")")

CondSubqueryJoin(c, vs, s) ==
    LET s1 == sql_column(c.col2, s \o c.col \o " IN (SELECT ")
        s2 == sql_joins(c.joins, s1 \o " FROM " \o c.tbl2 \o " ")
        r == f(Condition(c.expr), vs, s2 \o " WHERE ")
    IN  St(r.values, r.w \o ")")

\* CondIn binding its values like every other arm does
CondIn_Bound(col, vals, vs, s) ==
    St(vs \o vals,
       s \o col \o " IN (" \o join([i \in 1..Len(vals) |-> "?"], ", ") \o ")")

CondIn(col, vals, vs, s) ==
    St(vs, s \o col \o " IN ("
             \o join([i \in 1..Len(vals) |-> SqlVal_to_string(vals[i])], ", ")
             \o ")")

sql_for_cond(c, vs, s) ==
    CASE c.op = "True" -> St(vs, s \o "TRUE")
      [] c.op = "Eq" -> CondEq(c.col, c.ex, vs, s)
      [] c.op = "Ne" -> CondNe(c.col, c.ex, vs, s)
      [] c.op = "Lt" -> CondCmp(c.col, " < ", c.ex, vs, s)
      [] c.op = "Gt" -> CondCmp(c.col, " > ", c.ex, vs, s)
      [] c.op = "Le" -> CondCmp(c.col, " <= ", c.ex, vs, s)
      [] c.op = "Ge" -> CondCmp(c.col, " >= ", c.ex, vs, s)
      [] c.op = "Like" -> CondCmp(c.col, " like ", c.ex, vs, s)
      [] c.op = "AllOf" -> CondAllOf(c.conds, vs, s)
      [] c.op = "And" -> CondAnd(c.a, c.b, vs, s)
      [] c.op = "Or" -> CondOr(c.a, c.b, vs, s)
      [] c.op = "Not" -> CondNot(c.a, vs, s)
      [] c.op = "Subquery" -> CondSubquery(c, vs, s)
      [] c.op = "SubqueryJoin" -> CondSubqueryJoin(c, vs, s)
      [] c.op = "In" -> CondIn(c.col, c.vals, vs, s)

sql_for_expr(expr, vs, s) ==
    CASE expr.e = "Column" -> ExprColumn(expr.name, vs, s)
      [] expr.e = "Val" -> ExprVal(expr.v, vs, s)
      [] expr.e = "Placeholder" -> ExprPlaceholder(vs, s)
      [] expr.e = "Condition" -> sql_for_cond(expr.c, vs, s)

(***************************************************************************)
(* Statement builders                                                      *)
(***************************************************************************)
sql_select(columns, table, s) ==
    list_columns(columns, s \o "SELECT ") \o " FROM " \o table

\* columns.iter().fold("", |sep, _| { write "{sep}?"; ", " })
RECURSIVE fold_placeholders(_, _, _)
fold_placeholders(columns, sep, s) ==
    IF columns = <<>> THEN s
    ELSE fold_placeholders(Tail(columns), ", ", s \o sep \o "?")

sql_insert_with_placeholders(table, columns, allow_replace, s) ==
    LET s1 == s \o "INSERT "
        s2 == IF allow_replace THEN s1 \o "OR REPLACE " ELSE s1
        s3 == list_columns(columns, s2 \o "INTO " \o table \o " (")
        s4 == fold_placeholders(columns, "", s3 \o ") VALUES (")
    IN  s4 \o ")"

\* columns.iter().fold("", |sep, c| { write "{sep}{c} = ?"; ", " })
RECURSIVE fold_assignments(_, _, _)
fold_assignments(columns, sep, s) ==
    IF columns = <<>> THEN s
    ELSE fold_assignments(Tail(columns), ", ",
                          s \o sep \o Head(columns) \o " = ?")

sql_update_with_placeholders(table, pkcol, columns, s) ==
    fold_assignments(columns, "", s \o "UPDATE " \o table \o " SET ")
        \o " WHERE " \o pkcol \o " = ?"

sql_limit(limit, s) == s \o " LIMIT " \o ToString(limit)

(***************************************************************************)
(* column_default                                                          *)
(***************************************************************************)
\* zero_value with the text arm falling back to NULL
zero_value_TextNull(t) ==
    CASE t = "Bool" -> SqlVal_Bool(FALSE)
      [] t = "Int" -> SqlVal_Int(0)
      [] t = "BigInt" -> SqlVal_Int(0)
      [] t = "Real" -> SqlVal_Real(0)
      [] t = "Text" -> SqlVal_Null
      [] t = "Blob" -> SqlVal_Blob(<<>>)

\* the match on col.sqltype()?
zero_value(t) ==
    CASE t = "Bool" -> SqlVal_Bool(FALSE)
      [] t = "Int" -> SqlVal_Int(0)
      [] t = "BigInt" -> SqlVal_Int(0)
      [] t = "Real" -> SqlVal_Real(0)
      [] t = "Text" -> SqlVal_Text("")
      [] t = "Blob" -> SqlVal_Blob(<<>>)

\* column_default testing nullability before the explicit default
column_default_NullableFirst(col) ==
    IF col.nullable THEN Ok(SqlVal_Null)
    ELSE IF col.default.some THEN Ok(col.default.val)
    ELSE IF ~col.sqltype.ok THEN Err(col.sqltype.err)
    ELSE Ok(zero_value(col.sqltype.val))

\* column_default resolving the type before anything else
column_default_TypeFirst(col) ==
    IF ~col.sqltype.ok THEN Err(col.sqltype.err)
    ELSE IF col.default.some THEN Ok(col.default.val)
    ELSE IF col.nullable THEN Ok(SqlVal_Null)
    ELSE Ok(zero_value(col.sqltype.val))

column_default(col) ==
    IF col.default.some THEN Ok(col.default.val)
    ELSE IF col.nullable THEN Ok(SqlVal_Null)
    ELSE IF ~col.sqltype.ok THEN Err(col.sqltype.err)
    ELSE Ok(zero_value(col.sqltype.val))

(***************************************************************************)
(* Bounds and input pools                                                  *)
(***************************************************************************)
MaxConds == 3

MaxJoins == 2

MaxInVals == 2

MaxCols == 2

\* all sequences over S of length at most n
SeqsUpTo(S, n) == UNION {[1..k -> S] : k \in 0..n}

ColNames == {"published", "likes"}

SelectCols == {"id", "title"}

Tables == {"Post"}

Limits == {5, -1}

BindVals ==
    {SqlVal_Null, SqlVal_Bool(TRUE), SqlVal_Int(5), SqlVal_Text("a?")}

LitVals ==
    {SqlVal_Null, SqlVal_Bool(FALSE), SqlVal_Int(1), SqlVal_Int(-2),
     SqlVal_Real(0), SqlVal_Text("abc"), SqlVal_Text("a?"),
     SqlVal_Blob(<<171, 1>>)}

Leaves ==
    {Expr_Column(c) : c \in ColNames} \cup {Val(v) : v \in BindVals}
        \cup {Placeholder, Condition(True)}

Cmps ==
    UNION {{Eq(c, x), Ne(c, x), Lt(c, x), Gt(c, x), Le(c, x), Ge(c, x),
            Like(c, x)} : c \in ColNames, x \in Leaves}

Ins == {In(c, vals) : c \in ColNames, vals \in SeqsUpTo(LitVals, MaxInVals)}

Level0 == Cmps \cup Ins \cup {True}

\* children of the composite conditions
Kids ==
    {True,
     Eq("published", Val(SqlVal_Bool(TRUE))),
     Lt("likes", Val(SqlVal_Int(5))),
     Ne("likes", Val(SqlVal_Null)),
     Like("published", Placeholder),
     In("likes", <<SqlVal_Int(1), SqlVal_Text("a?")>>)}

QCols == {QColumn(None, "id"), QColumn(Some("Blog"), "id")}

Joins ==
    {Join_Inner("Blog", QColumn(Some("Post"), "blog"), QColumn(Some("Blog"), "id")),
     Join_Inner("Tag", QColumn(None, "tag"), QColumn(Some("Tag"), "tag"))}

Composites(K, L) ==
    {And(a, b) : a \in K, b \in K} \cup {Or(a, b) : a \in K, b \in K}
        \cup {Not(a) : a \in K}
        \cup {AllOf(cs) : cs \in SeqsUpTo(L, MaxConds)}
        \cup {Subquery("blog", "Blog", "id", a) : a \in K}
        \cup {SubqueryJoin("blog", "Blog", q, js, a) :
                q \in QCols, js \in SeqsUpTo(Joins, MaxJoins), a \in L}

Level1 == Composites(Kids, Kids)

\* composite children, for the trees of depth three
Kids2 ==
    {And(Eq("published", Val(SqlVal_Bool(TRUE))), Lt("likes", Val(SqlVal_Int(5)))),
     Or(Like("published", Placeholder), Ne("likes", Val(SqlVal_Null))),
     Not(Lt("likes", Val(SqlVal_Int(5)))),
     AllOf(<<>>),
     AllOf(<<Eq("published", Val(SqlVal_Text("a?"))), Lt("likes", Val(SqlVal_Int(5)))>>),
     Subquery("blog", "Blog", "id", Eq("published", Val(SqlVal_Bool(TRUE)))),
     Lt("likes", Val(SqlVal_Int(5)))}

Kids3 ==
    {AllOf(<<Eq("published", Val(SqlVal_Text("a?"))), Lt("likes", Val(SqlVal_Int(5)))>>),
     Or(Like("published", Placeholder), Ne("likes", Val(SqlVal_Null))),
     Gt("likes", Val(SqlVal_Int(5)))}

Level2 == Composites(Kids2, Kids3)

Conds == Level0 \cup Level1 \cup Level2

Exprs == Leaves \cup {Condition(c) : c \in Conds}

AColumns ==
    {AColumn(d, n, t) :
        d \in {None, Some(SqlVal_Int(5)), Some(SqlVal_Null), Some(SqlVal_Text("x"))},
        n \in BOOLEAN,
        t \in {Ok(ty) : ty \in SqlType}
                  \cup {Err("unknown type"), Err("deferred type")}}

(***************************************************************************)
(* The state machine: a fresh sink and parameter vector, then the helper   *)
(* calls a caller makes on them, logged in calls.                          *)
(***************************************************************************)
Init ==
    /\ w = ""
    /\ values = <<>>
    /\ calls = <<>>
    /\ result = None

Stage == IF calls = <<>> THEN "start" ELSE calls[Len(calls)].fn

SqlSelect ==
    /\ Stage = "start"
    /\ \E columns \in SeqsUpTo(SelectCols, MaxCols), table \in Tables :
        /\ w' = sql_select(columns, table, w)
        /\ calls' = Append(calls, [fn |-> "sql_select", columns |-> columns,
                                   table |-> table])
    /\ UNCHANGED <<values, result>>

\* the caller's w.write_str(" WHERE ") between sql_select and the predicate
WriteWhere ==
    /\ Stage = "sql_select"
    /\ w' = w \o " WHERE "
    /\ calls' = Append(calls, [fn |-> "write_str"])
    /\ UNCHANGED <<values, result>>

\* on a fresh sink any expression, after WHERE a condition
SqlForExpr ==
    /\ Stage \in {"start", "write_str"}
    /\ \E expr \in IF Stage = "start" THEN Exprs
                   ELSE {Condition(c) : c \in Conds} :
        /\ LET r == sql_for_expr(expr, values, w)
           IN  /\ w' = r.w
               /\ values' = r.values
        /\ calls' = Append(calls, [fn |-> "sql_for_expr", expr |-> expr])
    /\ UNCHANGED result

SqlLimit ==
    /\ Stage \in {"sql_select", "sql_for_expr"}
    /\ \E limit \in Limits :
        /\ w' = sql_limit(limit, w)
        /\ calls' = Append(calls, [fn |-> "sql_limit", limit |-> limit])
    /\ UNCHANGED <<values, result>>

SqlInsertWithPlaceholders ==
    /\ Stage = "start"
    /\ \E columns \in SeqsUpTo(SelectCols, MaxCols), table \in Tables,
          allow_replace \in BOOLEAN :
        /\ w' = sql_insert_with_placeholders(table, columns, allow_replace, w)
        /\ calls' = Append(calls, [fn |-> "sql_insert_with_placeholders",
                                   columns |-> columns, table |-> table,
                                   allow_replace |-> allow_replace])
    /\ UNCHANGED <<values, result>>

SqlUpdateWithPlaceholders ==
    /\ Stage = "start"
    /\ \E columns \in SeqsUpTo(SelectCols, MaxCols), table \in Tables,
          pkcol \in SelectCols :
        /\ w' = sql_update_with_placeholders(table, pkcol, columns, w)
        /\ calls' = Append(calls, [fn |-> "sql_update_with_placeholders",
                                   columns |-> columns, table |-> table,
                                   pkcol |-> pkcol])
    /\ UNCHANGED <<values, result>>

ColumnDefault ==
    /\ Stage = "start"
    /\ \E col \in AColumns :
        /\ result' = column_default(col)
        /\ calls' = Append(calls, [fn |-> "column_default", col |-> col])
    /\ UNCHANGED <<w, values>>

SqlLiteralValue ==
    /\ Stage = "start"
    /\ \E val \in LitVals :
        /\ result' = sql_literal_value(val)
        /\ calls' = Append(calls, [fn |-> "sql_literal_value", val |-> val])
    /\ UNCHANGED <<w, values>>

Next ==
    \/ SqlSelect
    \/ WriteWhere
    \/ SqlForExpr
    \/ SqlLimit
    \/ SqlInsertWithPlaceholders
    \/ SqlUpdateWithPlaceholders
    \/ ColumnDefault
    \/ SqlLiteralValue

Spec == Init /\ [][Next]_vars

(***************************************************************************)
(* Vocabulary of the properties                                            *)
(***************************************************************************)
LastCall == calls[Len(calls)]

\* sql_for_expr has just run on the empty sink and the empty vector
FreshCompile == Len(calls) = 1 /\ calls[1].fn = "sql_for_expr"

\* this step is a call of sql_for_expr
CompileStep == Len(calls') = Len(calls) + 1 /\ calls'[Len(calls')].fn = "sql_for_expr"

\* what compiling expr alone, on an empty sink and vector, gives
Alone(expr) == sql_for_expr(expr, <<>>, "")

\* the number of ? characters of a text
CountQ(s) == Cardinality({i \in 1..Len(s) : SubSeq(s, i, i) = "?"})

RECURSIVE Sum(_)
Sum(ns) == IF ns = <<>> THEN 0 ELSE Head(ns) + Sum(Tail(ns))

RECURSIVE Flatten(_)
Flatten(ss) == IF ss = <<>> THEN <<>> ELSE Head(ss) \o Flatten(Tail(ss))

RECURSIVE ValNodesC(_)
\* the Val nodes of a tree that the traversal visits, left to right: the Null
\* of an Eq/Ne null test is rewritten, not visited; In values are literals
ValNodes(expr) ==
    CASE expr.e = "Val" -> <<expr.v>>
      [] expr.e = "Condition" -> ValNodesC(expr.c)
      [] OTHER -> <<>>

ValNodesC(c) ==
    CASE c.op \in {"Eq", "Ne"} ->
            IF c.ex = Val(SqlVal_Null) THEN <<>> ELSE ValNodes(c.ex)
      [] c.op \in {"Lt", "Gt", "Le", "Ge", "Like"} -> ValNodes(c.ex)
      [] c.op = "AllOf" ->
            Flatten([i \in 1..Len(c.conds) |-> ValNodesC(c.conds[i])])
      [] c.op \in {"And", "Or"} -> ValNodesC(c.a) \o ValNodesC(c.b)
      [] c.op = "Not" -> ValNodesC(c.a)
      [] c.op \in {"Subquery", "SubqueryJoin"} -> ValNodesC(c.expr)
      [] OTHER -> <<>>

RECURSIVE OtherMarksC(_)
\* the ? characters of a tree's text that no Val wrote: one per Placeholder
\* node, and those inside the literals of an In list
OtherMarks(expr) ==
    CASE expr.e = "Placeholder" -> 1
      [] expr.e = "Condition" -> OtherMarksC(expr.c)
      [] OTHER -> 0

OtherMarksC(c) ==
    CASE c.op \in {"Eq", "Ne", "Lt", "Gt", "Le", "Ge", "Like"} -> OtherMarks(c.ex)
      [] c.op = "AllOf" -> Sum([i \in 1..Len(c.conds) |-> OtherMarksC(c.conds[i])])
      [] c.op \in {"And", "Or"} -> OtherMarksC(c.a) + OtherMarksC(c.b)
      [] c.op = "Not" -> OtherMarksC(c.a)
      [] c.op \in {"Subquery", "SubqueryJoin"} -> OtherMarksC(c.expr)
      [] c.op = "In" ->
            Sum([i \in 1..Len(c.vals) |-> CountQ(SqlVal_to_string(c.vals[i]))])
      [] OTHER -> 0

\* the text that stands for a bound value once it is put back in its place
Marker(v) == "{" \o sql_literal_value(v) \o "}"

RECURSIVE InlinedC(_)
\* the tree with every visited Val replaced by a column reference naming it
Inlined(expr) ==
    CASE expr.e = "Val" -> Expr_Column(Marker(expr.v))
      [] expr.e = "Condition" -> Condition(InlinedC(expr.c))
      [] OTHER -> expr

InlinedC(c) ==
    CASE c.op \in {"Eq", "Ne"} ->
            IF c.ex = Val(SqlVal_Null) THEN c ELSE [c EXCEPT !.ex = Inlined(c.ex)]
      [] c.op \in {"Lt", "Gt", "Le", "Ge", "Like"} -> [c EXCEPT !.ex = Inlined(c.ex)]
      [] c.op = "AllOf" ->
            [c EXCEPT !.conds = [i \in 1..Len(c.conds) |-> InlinedC(c.conds[i])]]
      [] c.op \in {"And", "Or"} ->
            [c EXCEPT !.a = InlinedC(c.a), !.b = InlinedC(c.b)]
      [] c.op = "Not" -> [c EXCEPT !.a = InlinedC(c.a)]
      [] c.op \in {"Subquery", "SubqueryJoin"} -> [c EXCEPT !.expr = InlinedC(c.expr)]
      [] OTHER -> c

RECURSIVE Concat(_, _, _)
\* the concatenation of the texts pieces[lo..hi]
Concat(pieces, lo, hi) ==
    IF lo > hi THEN ""
    ELSE IF lo = hi THEN pieces[lo]
    ELSE Concat(pieces, lo, (lo + hi) \div 2)
             \o Concat(pieces, (lo + hi) \div 2 + 1, hi)

\* the text with its k-th ? replaced by the marker of the k-th bound value
Bind(s, vs) ==
    Concat([i \in 1..Len(s) |->
               IF SubSeq(s, i, i) = "?" /\ CountQ(SubSeq(s, 1, i)) <= Len(vs)
               THEN Marker(vs[CountQ(SubSeq(s, 1, i))])
               ELSE SubSeq(s, i, i)],
           1, Len(s))

(***************************************************************************)
(* Placeholder / parameter alignment                                       *)
(***************************************************************************)
\* C1 (as claimed): after sql_for_expr has run on an empty sink and an empty
\* parameter vector, for any tree, Placeholder included, the number of ?
\* markers of the text equals the length of the parameter vector.
C1_MarkersEqualParams_AnyTree ==
    FreshCompile => CountQ(w) = Len(values)

\* C1 (amended): after sql_for_expr has run on an empty sink and an empty
\* parameter vector, the number of ? characters of the text equals the length
\* of the parameter vector plus the number of Placeholder nodes plus the ?
\* characters inside In-list literals; the two are equal for every tree
\* that has neither.
C1_MarkersEqualParamsPlusUnbound ==
    FreshCompile =>
        /\ CountQ(w) = Len(values) + OtherMarks(calls[1].expr)
        /\ OtherMarks(calls[1].expr) = 0 => CountQ(w) = Len(values)

\* a tree with several values and no unbound marker has been compiled
C1_Witness ==
    /\ FreshCompile
    /\ OtherMarks(calls[1].expr) = 0
    /\ Len(values) = 4
    /\ CountQ(w) = 4

\* C2: the values of the parameter vector are the Val nodes the traversal
\* visits, in left-to-right order (left operand before right, list order in
\* AllOf), and each value sits where its ? is in the text: putting the k-th
\* value back in place of the k-th ? gives the text of the tree with its
\* values written inline (for a tree whose ? all come from Val nodes).
C2_ParamsInTraversalOrder ==
    FreshCompile =>
        /\ values = ValNodes(calls[1].expr)
        /\ OtherMarks(calls[1].expr) = 0 =>
               Bind(w, values) = Alone(Inlined(calls[1].expr)).w

\* an And of an AllOf and an And, four values, three of them distinct
C2_Witness ==
    /\ FreshCompile
    /\ calls[1].expr.e = "Condition"
    /\ calls[1].expr.c.op = "And"
    /\ values = <<SqlVal_Text("a?"), SqlVal_Int(5), SqlVal_Bool(TRUE), SqlVal_Int(5)>>
    /\ w = "published = ? AND likes < ? AND published = ? AND likes < ?"

(***************************************************************************)
(* Rendering rules                                                         *)
(***************************************************************************)
\* the expression of the sql_for_expr call this step makes
StepExpr == calls'[Len(calls')].expr

\* this step compiles a condition of the kind op
CompileOf(op) ==
    CompileStep /\ StepExpr.e = "Condition" /\ StepExpr.c.op = op

\* C3: Eq(col, Val(Null)) writes exactly "<col> IS NULL" and Ne(col,
\* Val(Null)) exactly "<col> IS NOT NULL", no ? and the parameter vector
\* unchanged; any other right side writes "<col> = " / "<col> <> " followed
\* by the compiled right side.
C3_NullEqualityRewrite ==
    [][/\ CompileOf("Eq") =>
            LET c == StepExpr.c
            IN  IF c.ex = Val(SqlVal_Null)
                THEN w' = w \o c.col \o " IS NULL" /\ values' = values
                ELSE /\ w' = w \o c.col \o " = " \o Alone(c.ex).w
                     /\ values' = values \o Alone(c.ex).values
       /\ CompileOf("Ne") =>
            LET c == StepExpr.c
            IN  IF c.ex = Val(SqlVal_Null)
                THEN w' = w \o c.col \o " IS NOT NULL" /\ values' = values
                ELSE /\ w' = w \o c.col \o " <> " \o Alone(c.ex).w
                     /\ values' = values \o Alone(c.ex).values]_vars

\* an equality with NULL compiled after a SELECT ... WHERE prefix
C3_Witness ==
    /\ Len(calls) = 3
    /\ LastCall.fn = "sql_for_expr"
    /\ LastCall.expr = Condition(Eq("likes", Val(SqlVal_Null)))
    /\ w = "SELECT id FROM Post WHERE likes IS NULL"
    /\ values = <<>>

\* C4: AllOf(conds) with n conditions writes the n compiled conditions in
\* list order with " AND " between consecutive ones and nowhere else (n - 1
\* separators), and writes and pushes nothing when the list is empty.
C4_AllOfSeparators ==
    [][CompileOf("AllOf") =>
          LET conds == StepExpr.c.conds
              each == [i \in 1..Len(conds) |-> Alone(Condition(conds[i]))]
          IN  /\ w' = w \o join([i \in 1..Len(conds) |-> each[i].w], " AND ")
              /\ values' = values \o Flatten([i \in 1..Len(conds) |-> each[i].values])
              /\ conds = <<>> => w' = w /\ values' = values]_vars

\* three conditions, two separators
C4_Witness ==
    /\ FreshCompile
    /\ calls[1].expr =
           Condition(AllOf(<<Lt("likes", Val(SqlVal_Int(5))), True,
                             Eq("published", Val(SqlVal_Bool(TRUE)))>>))
    /\ w = "likes < ? AND TRUE AND published = ?"
    /\ values = <<SqlVal_Int(5), SqlVal_Bool(TRUE)>>

C10_JoinsSeparated ==
    (FreshCompile /\ calls[1].expr.e = "Condition"
        /\ calls[1].expr.c.op = "SubqueryJoin") =>
        LET c == calls[1].expr.c
            head == sql_column(c.col2, c.col \o " IN (SELECT ") \o " FROM " \o c.tbl2 \o " "
            tail == " WHERE " \o Alone(Condition(c.expr)).w \o ")"
            KW == "INNER JOIN"
        IN  /\ Len(w) >= Len(head) + Len(tail)
            /\ SubSeq(w, 1, Len(head)) = head
            /\ SubSeq(w, Len(w) - Len(tail) + 1, Len(w)) = tail
            /\ values = Alone(Condition(c.expr)).values
            /\ Cardinality({i \in 1..(Len(w) - Len(KW) + 1) :
                               SubSeq(w, i, i + Len(KW) - 1) = KW}) = Len(c.joins)
            /\ \A i \in 1..(Len(w) - Len(KW) + 1) :
                   SubSeq(w, i, i + Len(KW) - 1) = KW =>
                       i > 1 /\ SubSeq(w, i - 1, i - 1) = " "

(***************************************************************************)
(* Statement builders                                                      *)
(***************************************************************************)
\* the select / where / predicate / limit sequence of the query example
Scenario ==
    <<[fn |-> "sql_select", columns |-> <<"id", "title">>, table |-> "Post"],
      [fn |-> "write_str"],
      [fn |-> "sql_for_expr",
       expr |-> Condition(AllOf(<<Eq("published", Val(SqlVal_Bool(TRUE))),
                                  Lt("likes", Val(SqlVal_Int(5)))>>))],
      [fn |-> "sql_limit", limit |-> 5]>>

\* C8: sql_select of [id, title] from Post, " WHERE ", the AllOf of
\* published = true and likes < 5, then sql_limit(5), give exactly the text
\* below with the parameters [Bool(true), Int(5)]; sql_select joins the
\* column names with "," and sql_limit appends " LIMIT <n>" and leaves the
\* parameter vector alone.
C8_SelectWhereLimit ==
    /\ [](calls = Scenario =>
            /\ w = "SELECT id,title FROM Post WHERE published = ? AND likes < ? LIMIT 5"
            /\ values = <<SqlVal_Bool(TRUE), SqlVal_Int(5)>>)
    /\ [][(Len(calls') = Len(calls) + 1 /\ calls'[Len(calls')].fn = "sql_select") =>
             /\ w' = w \o "SELECT " \o join(calls'[Len(calls')].columns, ",")
                        \o " FROM " \o calls'[Len(calls')].table
             /\ values' = values]_vars
    /\ [][(Len(calls') = Len(calls) + 1 /\ calls'[Len(calls')].fn = "sql_limit") =>
             /\ w' = w \o " LIMIT " \o ToString(calls'[Len(calls')].limit)
             /\ values' = values]_vars

C8_Witness ==
    /\ calls = Scenario
    /\ w = "SELECT id,title FROM Post WHERE published = ? AND likes < ? LIMIT 5"
    /\ values = <<SqlVal_Bool(TRUE), SqlVal_Int(5)>>

(***************************************************************************)
(* column_default                                                          *)
(***************************************************************************)
Defaulted == Len(calls) = 1 /\ calls[1].fn = "column_default"

\* C6: column_default resolves in strict precedence: an explicit default is
\* returned whatever the nullability and the type; otherwise a nullable
\* column gives Null; otherwise the zero value of the column's type
\* (Bool(false) for a Bool column).
C6_DefaultPrecedence ==
    Defaulted =>
        LET col == calls[1].col
        IN  /\ col.default.some => result = Ok(col.default.val)
            /\ (~col.default.some /\ col.nullable) => result = Ok(SqlVal_Null)
            /\ (~col.default.some /\ ~col.nullable /\ col.sqltype.ok) =>
                   /\ result = Ok(zero_value(col.sqltype.val))
                   /\ col.sqltype.val = "Bool" => result = Ok(SqlVal_Bool(FALSE))

\* a non-nullable column of unknown type with the explicit default Int(5)
C6_Witness ==
    /\ Defaulted
    /\ calls[1].col = AColumn(Some(SqlVal_Int(5)), FALSE, Err("unknown type"))
    /\ result = Ok(SqlVal_Int(5))

\* C7: column_default fails exactly when the column has no explicit default,
\* is not nullable and its type accessor fails, and then returns the
\* accessor's error.
C7_DefaultErrors ==
    Defaulted =>
        LET col == calls[1].col
        IN  /\ ~result.ok <=>
                   (~col.default.some /\ ~col.nullable /\ ~col.sqltype.ok)
            /\ ~result.ok => result = Err(col.sqltype.err)

C7_Witness ==
    /\ Defaulted
    /\ calls[1].col = AColumn(None, FALSE, Err("deferred type"))
    /\ result = Err("deferred type")

\* C9 (as claimed): for a non-nullable column without an explicit default the
\* value returned carries the SqlVal tag named like the column's SqlType,
\* BigInt included.
C9_TagMirrorsType ==
    (Defaulted /\ ~calls[1].col.default.some /\ ~calls[1].col.nullable
        /\ calls[1].col.sqltype.ok) =>
        result.ok /\ result.val.tag = calls[1].col.sqltype.val

\* C9 (amended): for a non-nullable column without an explicit default, Bool
\* gives Bool(false), Int gives Int(0), BigInt gives Int(0) (SqlVal has no
\* BigInt tag), Real gives Real(0.0), Text gives Text(""), Blob gives an
\* empty Blob; every type but BigInt resolves to the tag of its own name.
C9_ZeroValuePerType ==
    (Defaulted /\ ~calls[1].col.default.some /\ ~calls[1].col.nullable
        /\ calls[1].col.sqltype.ok) =>
        LET t == calls[1].col.sqltype.val
        IN  /\ t = "Bool" => result = Ok([tag |-> "Bool", v |-> FALSE])
            /\ t = "Int" => result = Ok([tag |-> "Int", v |-> 0])
            /\ t = "BigInt" => result = Ok([tag |-> "Int", v |-> 0])
            /\ t = "Real" => result = Ok([tag |-> "Real", v |-> 0])
            /\ t = "Text" => result = Ok([tag |-> "Text", v |-> ""])
            /\ t = "Blob" => result = Ok([tag |-> "Blob", v |-> <<>>])
            /\ t # "BigInt" => result.val.tag = t

C9_Witness ==
    /\ Defaulted
    /\ calls[1].col = AColumn(None, FALSE, Ok("BigInt"))
    /\ result = Ok(SqlVal_Int(0))

====
